---- MODULE Spec2Model ----
(***************************************************************************)
(* quick.db: the QuickDB facade (src/src/index.ts) over the file-backed    *)
(* JSONDriver (src/unnamed/part_000), which extends the in-memory          *)
(* MemoryDriver.                                                           *)
(*                                                                         *)
(* JavaScript runs one job at a time.  An async function runs             *)
(* synchronously up to its first await; the continuation of an await is a  *)
(* microtask, and microtasks run first-in first-out (variable mq).  The    *)
(* completion of a file write is an I/O callback: it runs only when no     *)
(* microtask is pending.  A caller may issue a new facade call between any *)
(* two jobs.                                                               *)
(*                                                                         *)
(* Keys are sequences of characters, so that key.split(".") is computed.   *)
(* Values are tagged scalars or references into a heap of objects: the     *)
(* store, a captured export and the callers share objects by reference,    *)
(* exactly as the Map of the driver does.                                  *)
(***************************************************************************)
EXTENDS Integers, Sequences, FiniteSets, TLC

\* ------------------------------------------------------------------ bounds
MaxCalls == 2
MaxHistCalls == 3
NumVals == 1
MaxSeqCalls == 3

\* ------------------------------------------------------------------ values
V(k, n) == [k |-> k, n |-> n]
Undef == V("undef", 0)
Null == V("null", 0)
NaN == V("nan", 0)
Num(n) == V("num", n)
Str(n) == V("str", n)      \* Str(0) is "not a number"; Str(n), n > 0, is the decimal text of n
Ref(i) == V("ref", i)
True == V("bool", 1)
Arr(seq) == V("arr", seq)       \* an array of numbers, by its elements
Pred(m) == V("fn", m)           \* the predicate (data) => data >= m
False == V("bool", 0)

KeyA == <<"a">>
KeyB == <<"b">>
KeyAX == <<"a", ".", "x">>
KeyAY == <<"a", ".", "y">>
KeyBX == <<"b", ".", "x">>
Fields == {<<"x">>, <<"y">>}
TableNames == {"t1", "t2"}

EmptyObj == [f \in Fields |-> Undef]
NoDeep == [k |-> "undef", n |-> 0, f |-> EmptyObj]

\* key.includes(".")
Includes(key) == \E i \in DOMAIN key : key[i] = "."

\* key.split("."): the segments of key, each a sequence of characters
RECURSIVE Split(_)
Split(s) ==
    IF s = <<>> THEN << <<>> >>
    ELSE LET r == Split(Tail(s))
         IN  IF Head(s) = "." THEN << <<>> >> \o r
             ELSE << <<Head(s)>> \o r[1] >> \o Tail(r)

\* segs.join(".")
RECURSIVE Join(_)
Join(segs) ==
    IF segs = <<>> THEN <<>>
    ELSE IF Len(segs) = 1 THEN segs[1]
    ELSE segs[1] \o <<".">> \o Join(Tail(segs))

\* keySplit.slice(1).join("."): the nested path of a dotted key
PathOf(key) == Join(Tail(Split(key)))
RowOf(key) == Split(key)[1]

\* result instanceof Object
IsObject(v) == v.k = "ref"

\* lodash get(result, path) on a row value
LodashGetRoot(hp, v, path) == v
LodashGet(hp, v, path) ==
    IF IsObject(v) /\ path \in Fields THEN hp[v.n][path] ELSE Undef

\* lodash set(obj, path, value): mutates the object in place
LodashSet(o, path, v) == [o EXCEPT ![path] = v]

\* lodash unset(obj, path): mutates the object in place
UnsetKeep(o, path) == o
LodashUnset(o, path) == [o EXCEPT ![path] = Undef]

\* ------------------------------------------------------------ MemoryDriver
IndexOf(seq, x) ==
    IF \E i \in DOMAIN seq : seq[i] = x
    THEN CHOOSE i \in DOMAIN seq : seq[i] = x
    ELSE 0

RowIndex(rs, id) ==
    IF \E i \in DOMAIN rs : rs[i].id = id
    THEN CHOOSE i \in DOMAIN rs : rs[i].id = id
    ELSE 0

GetOrCreateTable(ts, t) == IF IndexOf(ts, t) > 0 THEN ts ELSE Append(ts, t)

\* [value | null, existed]
GetRowByKey(rs, id) ==
    IF RowIndex(rs, id) > 0
    THEN [result |-> rs[RowIndex(rs, id)].value, exist |-> TRUE]
    ELSE [result |-> Null, exist |-> FALSE]

\* Map.set: an existing id keeps its place, a new one goes last
MemSetRowByKey(rs, id, v) ==
    IF RowIndex(rs, id) > 0
    THEN [rs EXCEPT ![RowIndex(rs, id)].value = v]
    ELSE Append(rs, [id |-> id, value |-> v])

MemDeleteRowByKey(rs, id) ==
    LET i == RowIndex(rs, id)
    IN  IF i = 0 THEN rs
        ELSE [j \in 1..(Len(rs) - 1) |-> IF j < i THEN rs[j] ELSE rs[j + 1]]

MemDeleteAllRows(rs) == <<>>

GetAllRows(rs) == rs

\* -------------------------------------------------- JSON.stringify / parse
\* JSON.stringify of a scalar: NaN becomes null
JsonScalar(v) == IF v.k = "nan" THEN Null ELSE v

\* JSON.stringify of a row value: a reference is followed into the heap as it
\* is when the text is produced; an undefined field is left out
Deep(v, hp) ==
    IF v.k = "ref"
    THEN [k |-> "obj", n |-> 0, f |-> [fld \in Fields |-> JsonScalar(hp[v.n][fld])]]
    ELSE [k |-> JsonScalar(v).k, n |-> JsonScalar(v).n, f |-> EmptyObj]

\* JSON.stringify(data): data is the export, table by table
Stringify(data, hp) ==
    [i \in DOMAIN data |->
        [table |-> data[i].table,
         rows |-> [j \in DOMAIN data[i].rows |->
                      [id |-> data[i].rows[j].id,
                       value |-> Deep(data[i].rows[j].value, hp)]]]]

\* loadContentSync: data[table].forEach(d => store.set(d.id, d.value));
\* JSON.parse builds a fresh object for every object value
RECURSIVE LoadRows(_, _, _)
LoadRows(frows, rs, hp) ==
    IF frows = <<>> THEN [rows |-> rs, heap |-> hp]
    ELSE LET d == Head(frows)
         IN  IF d.value.k = "obj"
             THEN LoadRows(Tail(frows),
                           MemSetRowByKey(rs, d.id, Ref(Len(hp) + 1)),
                           Append(hp, d.value.f))
             ELSE LoadRows(Tail(frows),
                           MemSetRowByKey(rs, d.id, V(d.value.k, d.value.n)),
                           hp)

RECURSIVE LoadTables(_, _)
LoadTables(fdata, st) ==
    IF fdata = <<>> THEN st
    ELSE LET e == Head(fdata)
             r == LoadRows(e.rows, st.rows[e.table], st.heap)
         IN  LoadTables(Tail(fdata),
                        [tables |-> GetOrCreateTable(st.tables, e.table),
                         rows |-> [st.rows EXCEPT ![e.table] = r.rows],
                         heap |-> r.heap])

EmptyStore == [tables |-> <<>>, rows |-> [t \in TableNames |-> <<>>], heap |-> <<>>]

\* the store of a driver constructed on a file holding fdata
LoadContentSync(fdata) == LoadTables(fdata, EmptyStore)

\* export() taken in one go: every registered table with its rows
ExportOf(ts, rws) == [i \in DOMAIN ts |-> [table |-> ts[i], rows |-> GetAllRows(rws[ts[i]])]]

\* ------------------------------------------------------- write-file-atomic
NoTmp == [data |-> <<>>, complete |-> FALSE, used |-> FALSE]

\* writeFile(path, text) begins: the text goes to a temporary file beside the
\* target, which is left alone
WriteInPlaceBegin(f, content) ==
    [file |-> [data |-> content, complete |-> FALSE, exists |-> TRUE, notRows |-> 0],
     tmp |-> [data |-> content, complete |-> FALSE, used |-> TRUE]]
WriteFileBegin(f, content) ==
    [file |-> f, tmp |-> [data |-> content, complete |-> FALSE, used |-> TRUE]]

\* the temporary file is complete and renamed over the target
WriteFileRename(t) == [data |-> t.data, complete |-> TRUE, exists |-> TRUE, notRows |-> 0]

\* --------------------------------------------------------------- AsyncLock
\* lock.acquire("writedb", fn): fn runs at once when the key is free, else it
\* is queued
AcquireNoWait(l, c) == [lock |-> [held |-> TRUE, q |-> l.q], run |-> TRUE]
Acquire(l, c) ==
    IF l.held THEN [lock |-> [l EXCEPT !.q = Append(l.q, c)], run |-> FALSE]
    ELSE [lock |-> [l EXCEPT !.held = TRUE], run |-> TRUE]

\* cb(null, true): the oldest queued fn runs next, or the key becomes free
ReleaseForgetsQueue(l) ==
    IF l.q = <<>> THEN [lock |-> [l EXCEPT !.held = FALSE], next |-> 0]
    ELSE [lock |-> [l EXCEPT !.q = Tail(l.q)], next |-> 0]
Release(l) ==
    IF l.q = <<>> THEN [lock |-> [l EXCEPT !.held = FALSE], next |-> 0]
    ELSE [lock |-> [l EXCEPT !.q = Tail(l.q)], next |-> Head(l.q)]


\* ------------------------------------------------------------------- state
VARIABLES
    tables,     \* MemoryDriver.store: the registered table names, in Map order
    rows,       \* MemoryDriver.store: per table, its rows {id, value} in Map order
    heap,       \* the objects row values refer to
    file,       \* the snapshot file at JSONDriver.path
    tmp,        \* the temporary file of the write in flight
    calls,      \* the facade calls issued so far, with their local variables
    mq,         \* the microtask queue: calls whose await has resolved
    lock,       \* AsyncLock's "writedb" key: held, and the queued writers
    mclock,     \* history: the number of changes made to the in-memory store
    fileClock,  \* history: mclock as of the mutation whose snapshot the file holds
    hist,       \* history: the exports the in-memory store has had (SpecHist only)
    inst        \* what new JSONDriver(path) gave: "none" before it has run,
                \* "ready" for an instance, "malformed" for the error thrown

vars == <<tables, rows, heap, file, tmp, calls, mq, lock, mclock, fileClock, hist, inst>>

DNum(n) == [k |-> "num", n |-> n, f |-> EmptyObj]
DStr(n) == [k |-> "str", n |-> n, f |-> EmptyObj]
DObj(o) == [k |-> "obj", n |-> 0, f |-> o]
DArr(seq) == [k |-> "arr", n |-> seq, f |-> EmptyObj]

\* snapshot files written by earlier runs of the program
FileEmpty == <<>>
FileTwoTables ==
    << [table |-> "t1",
        rows |-> << [id |-> KeyA, value |-> DObj([EmptyObj EXCEPT ![<<"x">>] = Num(0)])] >>],
       [table |-> "t2", rows |-> << [id |-> KeyB, value |-> DNum(0)] >>] >>

FileOneTable ==
    << [table |-> "t1",
        rows |-> << [id |-> KeyA, value |-> DObj([EmptyObj EXCEPT ![<<"x">>] = Num(0)])],
                    [id |-> KeyB, value |-> DNum(0)] >>] >>

\* files loadContentSync cannot load: the text of FileTwoTables cut short, and
\* { "t1": [...], "t2": 0 }, whose second entry is not an array
FileCutShort == [data |-> FileTwoTables, complete |-> FALSE, exists |-> TRUE, notRows |-> 0]
FileEntryNotRows == [data |-> FileTwoTables, complete |-> TRUE, exists |-> TRUE, notRows |-> 2]
FileMissing == [data |-> <<>>, complete |-> FALSE, exists |-> FALSE, notRows |-> 0]
FileGood == [data |-> FileTwoTables, complete |-> TRUE, exists |-> TRUE, notRows |-> 0]

\* constructor -> loadContentSync(): without a file "{}" is written with
\* writeFile.sync; with one, JSON.parse throws on text that is not JSON and
\* data[table].forEach throws on an entry that is not an array, after the
\* entries before it were loaded and its own table registered; the catch turns
\* either into Error("Database malformed"), which leaves the constructor
JsonConstructSkipsEntry(f) ==
    IF ~f.exists
    THEN [file |-> WriteFileRename([data |-> FileEmpty]), store |-> EmptyStore, inst |-> "ready"]
    ELSE IF ~f.complete
    THEN [file |-> f, store |-> EmptyStore, inst |-> "malformed"]
    ELSE [file |-> f,
          store |-> LoadContentSync([k \in DOMAIN f.data |->
                       IF k = f.notRows THEN [f.data[k] EXCEPT !.rows = <<>>] ELSE f.data[k]]),
          inst |-> "ready"]
JsonConstruct(f) ==
    IF ~f.exists
    THEN [file |-> WriteFileRename([data |-> FileEmpty]), store |-> EmptyStore, inst |-> "ready"]
    ELSE IF ~f.complete
    THEN [file |-> f, store |-> EmptyStore, inst |-> "malformed"]
    ELSE IF f.notRows > 0
    THEN LET st == LoadTables(SubSeq(f.data, 1, f.notRows - 1), EmptyStore)
         IN  [file |-> f,
              store |-> [st EXCEPT !.tables = GetOrCreateTable(st.tables, f.data[f.notRows].table)],
              inst |-> "malformed"]
    ELSE [file |-> f, store |-> LoadContentSync(f.data), inst |-> "ready"]

\* new JSONDriver(path): loadContentSync() on the file, or "{}" written when
\* there is none
InitOf(files, track) ==
    \E fd \in files :
        LET st == LoadContentSync(fd)
        IN  /\ file = [data |-> fd, complete |-> TRUE, exists |-> TRUE, notRows |-> 0]
            /\ tables = st.tables
            /\ rows = st.rows
            /\ heap = st.heap
            /\ tmp = NoTmp
            /\ calls = <<>>
            /\ mq = <<>>
            /\ lock = [held |-> FALSE, q |-> <<>>]
            /\ mclock = 0
            /\ fileClock = 0
            /\ hist = IF track THEN {Stringify(ExportOf(st.tables, st.rows), st.heap)} ELSE {}
            /\ inst = "ready"

NewCall(op, t, key, v) ==
    [op |-> op, table |-> t, key |-> key, arg |-> v, pc |-> "new",
     wkey |-> <<>>, wval |-> Undef, res |-> Undef, exist |-> FALSE,
     idx |-> 0, data |-> <<>>,
     mut |-> 0, ntab |-> 0, nSet |-> 0, nDel |-> 0, nWrite |-> 0,
     wfail |-> FALSE, outcome |-> "pending", cur |-> Undef,
     t0 |-> 0, quiet |-> FALSE, expect |-> NoDeep, wrote |-> NoDeep,
     ret |-> Undef]

Put(i, c) == IF i > Len(calls) THEN Append(calls, c) ELSE [calls EXCEPT ![i] = c]

\* ------------------------------------------------ JSONDriver: mutate, export
\* snapshot() -> export(): the first table's rows are read in the same job as
\* the mutation; each further table is read one microtask later
SnapshotStartJumpsQueue(i, c, rows2, q) ==
    /\ rows' = rows2
    /\ mclock' = mclock + 1
    /\ calls' = Put(i, [c EXCEPT !.pc = "export", !.idx = 1, !.mut = mclock + 1,
                                 !.ntab = Len(tables'),
                                 !.data = << [table |-> tables'[1],
                                              rows |-> GetAllRows(rows2[tables'[1]])] >>])
    /\ mq' = <<i>> \o q
SnapshotStartStale(i, c, rows2, q) ==
    /\ rows' = rows2
    /\ mclock' = mclock + 1
    /\ calls' = Put(i, [c EXCEPT !.pc = "export", !.idx = 1, !.mut = mclock + 1,
                                 !.ntab = Len(tables'),
                                 !.data = << [table |-> tables'[1],
                                              rows |-> GetAllRows(rows[tables'[1]])] >>])
    /\ mq' = Append(q, i)
SnapshotStart(i, c, rows2, q) ==
    /\ rows' = rows2
    /\ mclock' = mclock + 1
    /\ calls' = Put(i, [c EXCEPT !.pc = "export", !.idx = 1, !.mut = mclock + 1,
                                 !.ntab = Len(tables'),
                                 !.data = << [table |-> tables'[1],
                                              rows |-> GetAllRows(rows2[tables'[1]])] >>])
    /\ mq' = Append(q, i)

\* each keeps val, what the MemoryDriver method returned, to return it after
\* the snapshot
JsonSetRowByKey(i, c, id, v, q) ==
    SnapshotStart(i, [c EXCEPT !.nSet = @ + 1, !.ret = v],
                  [rows EXCEPT ![c.table] = MemSetRowByKey(@, id, v)], q)

JsonDeleteRowByKey(i, c, id, q) ==
    SnapshotStart(i, [c EXCEPT !.nDel = @ + 1,
                               !.ret = Num(Len(rows[c.table])
                                           - Len(MemDeleteRowByKey(rows[c.table], id)))],
                  [rows EXCEPT ![c.table] = MemDeleteRowByKey(@, id)], q)

JsonDeleteAllTables(i, c, q) ==
    SnapshotStart(i, [c EXCEPT !.ret = Num(Len(rows[c.table]))],
                  [t \in TableNames |-> MemDeleteAllRows(rows[t])], q)
JsonDeleteAllRows(i, c, q) ==
    SnapshotStart(i, [c EXCEPT !.ret = Num(Len(rows[c.table]))],
                  [rows EXCEPT ![c.table] = MemDeleteAllRows(@)], q)

\* export(): for (const tableName of this.store.keys()) val[t] = await getAllRows(t)
ExportStep(i, c, q) ==
    /\ IF c.idx < Len(tables)
       THEN calls' = Put(i, [c EXCEPT !.idx = @ + 1,
                                      !.data = Append(@, [table |-> tables[c.idx + 1],
                                                          rows |-> GetAllRows(rows[tables[c.idx + 1]])])])
       ELSE calls' = Put(i, [c EXCEPT !.pc = "acquire"])
    /\ mq' = Append(q, i)
    /\ UNCHANGED <<rows, heap, file, tmp, lock, mclock, fileClock>>

\* the fn given to lock.acquire starts: JSON.stringify(data) is taken now, and
\* writeFile begins
StartWrite(cs, j) ==
    /\ calls' = [cs EXCEPT ![j].pc = "writing", ![j].nWrite = @ + 1, ![j].data = <<>>]
    /\ LET w == WriteFileBegin(file, Stringify(cs[j].data, heap))
       IN  file' = w.file /\ tmp' = w.tmp

\* snapshot(): this.lock.acquire("writedb", fn)
AcquireStep(i, c, q) ==
    LET a == Acquire(lock, i)
    IN  /\ lock' = a.lock
        /\ IF a.run
           THEN StartWrite(calls, i)
           ELSE /\ calls' = Put(i, [c EXCEPT !.pc = "queued"])
                /\ UNCHANGED <<file, tmp>>
        /\ mq' = q
        /\ UNCHANGED <<rows, heap, mclock, fileClock>>

\* after await writeFile(...): cb(null, true) releases the key and the oldest
\* queued fn starts
AfterWrite(i, c, q) ==
    LET r == Release(lock)
        cs == Put(i, [c EXCEPT !.pc = "resolving"])
    IN  /\ lock' = r.lock
        /\ IF r.next > 0
           THEN StartWrite(cs, r.next)
           ELSE calls' = cs /\ UNCHANGED <<file, tmp>>
        /\ mq' = Append(q, i)
        /\ UNCHANGED <<rows, heap, mclock, fileClock>>

\* .then(() => reoslve()); await this.snapshot() resumes; return val
Return(i, c, q) ==
    /\ calls' = Put(i, [c EXCEPT !.pc = "done", !.outcome = "ok", !.res = Undef,
                                 !.wval = Undef, !.exist = FALSE, !.idx = 0])
    /\ mq' = q
    /\ UNCHANGED <<rows, heap, file, tmp, lock, mclock, fileClock>>

\* ------------------------------------------------------------------ QuickDB
\* set(key, value) up to its await of driver.getRowByKey
SetEnter(i, c, key, val, q) ==
    LET read == GetRowByKey(rows[c.table], IF Includes(key) THEN RowOf(key) ELSE key)
    IN  /\ calls' = Put(i, [c EXCEPT !.pc = "set.await", !.wkey = key, !.wval = val,
                                     !.res = read.result, !.exist = read.exist])
        /\ mq' = Append(q, i)
        /\ UNCHANGED <<rows, heap, mclock>>

\* the row structure a dotted set is to leave: the one the row holds with the
\* leaf replaced, or the leaf alone when the row holds no object
SetInto(d, path, v) ==
    IF d.k = "obj" THEN [d EXCEPT !.f[path] = JsonScalar(v)]
    ELSE DObj([EmptyObj EXCEPT ![path] = JsonScalar(v)])

\* set(key, value) after the await: the nested path is written into the row's
\* object, or into a new object when the row value is not one
SetResume(i, c, q) ==
    IF Includes(c.wkey)
    THEN LET old == IsObject(c.res)
             ref == IF old THEN c.res ELSE Ref(Len(heap) + 1)
             hp == IF old
                   THEN [heap EXCEPT ![ref.n] = LodashSet(@, PathOf(c.wkey), c.wval)]
                   ELSE Append(heap, LodashSet(EmptyObj, PathOf(c.wkey), c.wval))
             prev == Deep(GetRowByKey(rows[c.table], RowOf(c.wkey)).result, heap)
         IN  /\ heap' = hp
             /\ JsonSetRowByKey(i, [c EXCEPT !.wrote = Deep(ref, hp),
                                             !.expect = SetInto(prev, PathOf(c.wkey), c.wval)],
                                RowOf(c.wkey), ref, q)
    ELSE /\ heap' = heap
         /\ JsonSetRowByKey(i, [c EXCEPT !.wrote = Deep(c.wval, heap),
                                         !.quiet = (c.t0 = mclock)],
                            c.wkey, c.wval, q)

\* the row structure a dotted delete is to write back: the one it found, less
\* the leaf
DeepWithout(d, path) == IF d.k = "obj" THEN [d EXCEPT !.f[path] = Undef] ELSE d

\* delete(key) up to its first await
DeleteEnterDropsRow(i, c, key, q) ==
    /\ heap' = heap
    /\ JsonDeleteRowByKey(i, c, IF Includes(key) THEN RowOf(key) ELSE key, q)
DeleteEnter(i, c, key, q) ==
    IF Includes(key)
    THEN /\ calls' = Put(i, [c EXCEPT !.pc = "del.get",
                                      !.res = GetRowByKey(rows[c.table], RowOf(key)).result])
         /\ mq' = Append(q, i)
         /\ UNCHANGED <<rows, heap, mclock>>
    ELSE /\ heap' = heap
         /\ JsonDeleteRowByKey(i, c, key, q)

\* get(key) after its await of driver.getRowByKey: the row value, or for a
\* dotted key lodash get(result, path); it returns to the method awaiting it
GetReturn(i, c, key, next, q) ==
    /\ calls' = Put(i, [c EXCEPT !.pc = next,
                                 !.res = IF Includes(key)
                                         THEN LodashGet(heap, c.res, PathOf(key))
                                         ELSE c.res])
    /\ mq' = Append(q, i)
    /\ UNCHANGED <<rows, heap, mclock>>

\* get(key) or has(key) up to the await of driver.getRowByKey
GetEnter(i, c, key, q) ==
    /\ calls' = Put(i, [c EXCEPT !.pc = IF c.op = "has" THEN "has.get" ELSE "get.get",
                                 !.res = GetRowByKey(rows[c.table],
                                                     IF Includes(key) THEN RowOf(key)
                                                     ELSE key).result])
    /\ mq' = Append(q, i)
    /\ UNCHANGED <<rows, heap, mclock>>

\* the caller's await of get(key) resumes with the value; has(key) resumes
\* and returns (await this.get(key)) != null
GetDone(i, c, q) ==
    /\ calls' = Put(i, [c EXCEPT !.pc = "done", !.outcome = "ok",
                                 !.ret = IF c.op = "has"
                                         THEN IF c.res.k \in {"null", "undef"} THEN False
                                              ELSE True
                                         ELSE c.res,
                                 !.res = Undef])
    /\ mq' = q
    /\ UNCHANGED <<rows, heap, mclock>>

\* delete(key) after its await: obj = result ?? {}; unset(obj, path);
\* this.set(keySplit[0], obj) up to set's await
DeleteResume(i, c, q) ==
    LET path == PathOf(c.key)
        fresh == c.res.k \in {"null", "undef"}
        obj == IF fresh THEN Ref(Len(heap) + 1) ELSE c.res
        hp == IF fresh THEN Append(heap, EmptyObj)
              ELSE IF IsObject(obj)
                   THEN [heap EXCEPT ![obj.n] = LodashUnset(@, path)]
                   ELSE heap
        mc == IF hp # heap /\ ~fresh THEN mclock + 1 ELSE mclock
        read == GetRowByKey(rows[c.table], RowOf(c.key))
    IN  /\ heap' = hp
        /\ mclock' = mc
        /\ calls' = Put(i, [c EXCEPT !.pc = "set.await", !.wkey = RowOf(c.key),
                                     !.wval = obj, !.res = read.result,
                                     !.exist = read.exist, !.t0 = mc,
                                     !.expect = DeepWithout(IF fresh THEN DObj(EmptyObj)
                                                            ELSE Deep(c.res, heap), path)])
        /\ mq' = Append(q, i)
        /\ UNCHANGED rows

\* parseFloat(text): the number a numeric text spells, NaN for any other text
\* and for an object ("[object Object]"); it never throws
ParseFloat(v) == IF v.k = "str" /\ v.n > 0 THEN Num(v.n) ELSE NaN

\* currentNumber += value, currentNumber -= value
JsArith(a, b, sub) ==
    IF a.k = "nan" \/ b.k = "nan" THEN NaN
    ELSE IF sub THEN Num(a.n - b.n) ELSE Num(a.n + b.n)

\* addSubtract(key, value, sub) up to its await of this.get(key)
AddSubEnter(i, c, key, q) ==
    /\ calls' = Put(i, [c EXCEPT !.pc = "add.get",
                                 !.res = GetRowByKey(rows[c.table],
                                                     IF Includes(key) THEN RowOf(key)
                                                     ELSE key).result])
    /\ mq' = Append(q, i)
    /\ UNCHANGED <<rows, heap, mclock>>

\* addSubtract after its await: null counts as 0, a non-number goes through
\* parseFloat, and the result is handed to this.set(key, result)
AddSubResume(i, c, q) ==
    LET n0 == IF c.res.k \in {"null", "undef"} THEN Num(0) ELSE c.res
        n1 == IF n0.k \in {"num", "nan"} THEN n0 ELSE ParseFloat(n0)
        c1 == [c EXCEPT !.cur = c.res]
    IN  IF n1.k = "undef"
        THEN /\ calls' = Put(i, [c1 EXCEPT !.pc = "done", !.outcome = "error", !.res = Undef])
             /\ mq' = q
             /\ UNCHANGED <<rows, heap, mclock>>
        ELSE SetEnter(i, c1, c.key, JsArith(n1, c.arg, c.op = "sub"), q)

\* Array.isArray(value)
IsArray(v) == v.k = "arr"

\* value.includes(element), value(element)
ArrIncludes(seq, e) == \E k \in DOMAIN seq : seq[k] = e
PredHolds(f, e) == e >= f.n

\* currentArr.filter((...params) => Array.isArray(value)
\*     ? !value.includes(params[0]) : !value(...params))
PullFilter(seq, value) ==
    IF IsArray(value)
    THEN SelectSeq(seq, LAMBDA e : ~ArrIncludes(value.n, e))
    ELSE SelectSeq(seq, LAMBDA e : ~PredHolds(value, e))

\* push(key, value) and pull(key, value) up to the await in getArray: the row
\* whose id is the whole key is read
GetArrayEnter(i, c, key, q) ==
    /\ calls' = Put(i, [c EXCEPT !.pc = "arr.get",
                                 !.res = GetRowByKey(rows[c.table], key).result])
    /\ mq' = Append(q, i)
    /\ UNCHANGED <<rows, heap, mclock>>

\* getArray returns result to the method awaiting it
GetArrayReturn(i, c, q) ==
    /\ calls' = Put(i, [c EXCEPT !.pc = "arr.await"])
    /\ mq' = Append(q, i)
    /\ UNCHANGED <<rows, heap, mclock>>

\* a TypeError thrown in the method rejects the call
Throw(i, c, q) ==
    /\ calls' = Put(i, [c EXCEPT !.pc = "done", !.outcome = "error", !.res = Undef])
    /\ mq' = q
    /\ UNCHANGED <<rows, heap, mclock>>

\* push after its await: currentArr.concat(value) for an array value, else
\* currentArr.push(value), which changes the stored array itself; then
\* this.set(key, currentArr) up to set's await.  null.concat, null.push and
\* the same on a number throw.
PushResume(i, c, q) ==
    IF ~IsArray(c.res)
    THEN Throw(i, [c EXCEPT !.cur = c.res], q)
    ELSE LET new == IF IsArray(c.arg) THEN Arr(c.res.n \o c.arg.n)
                    ELSE Arr(Append(c.res.n, c.arg.n))
             inplace == ~IsArray(c.arg) /\ GetRowByKey(rows[c.table], c.key).result = c.res
             rows2 == IF inplace
                      THEN [rows EXCEPT ![c.table] = MemSetRowByKey(@, c.key, new)]
                      ELSE rows
             read == GetRowByKey(rows2[c.table], IF Includes(c.key) THEN RowOf(c.key)
                                                  ELSE c.key)
         IN  /\ rows' = rows2
             /\ heap' = heap
             /\ mclock' = IF inplace THEN mclock + 1 ELSE mclock
             /\ calls' = Put(i, [c EXCEPT !.pc = "set.await", !.cur = c.res,
                                          !.wkey = c.key, !.wval = new,
                                          !.res = read.result, !.exist = read.exist])
             /\ mq' = Append(q, i)

\* pull after its await: a value that is neither an array nor a function is
\* wrapped in an array; the filtered copy goes to this.set(key, currentArr).
\* null.filter and the same on a number throw.
PullResume(i, c, q) ==
    IF ~IsArray(c.res)
    THEN Throw(i, [c EXCEPT !.cur = c.res], q)
    ELSE LET value == IF ~IsArray(c.arg) /\ c.arg.k # "fn" THEN Arr(<<c.arg.n>>)
                      ELSE c.arg
         IN  SetEnter(i, [c EXCEPT !.cur = c.res], c.key,
                      Arr(PullFilter(c.res.n, value)), q)

\* ------------------------------------------------------------------ actions
\* a caller invokes a facade method of a QuickDB bound to table t
IssueCall(op, t, key, v, max) ==
    /\ inst = "ready"
    /\ Len(calls) < max
    /\ tables' = GetOrCreateTable(tables, t)
    /\ LET i == Len(calls) + 1
           c == NewCall(op, t, key, v)
       IN  CASE op = "set" -> SetEnter(i, c, key, v, mq)
             [] op = "delete" -> DeleteEnter(i, c, key, mq)
             [] op = "deleteAll" -> heap' = heap /\ JsonDeleteAllRows(i, c, mq)
             [] op \in {"add", "sub"} -> AddSubEnter(i, c, key, mq)
             [] op \in {"get", "has"} -> GetEnter(i, c, key, mq)
             [] op \in {"push", "pull"} -> GetArrayEnter(i, c, key, mq)
    /\ UNCHANGED <<file, tmp, lock, fileClock>>

IssueSet(keys, max) ==
    \E t \in TableNames, key \in keys, n \in 1..NumVals :
        IssueCall("set", t, key, Num(n), max)

IssueDelete(keys, max) ==
    \E t \in TableNames, key \in keys : IssueCall("delete", t, key, Undef, max)

IssueAddSub(keys, max) ==
    \E op \in {"add", "sub"}, t \in TableNames, key \in keys, n \in 1..NumVals :
        IssueCall(op, t, key, Num(n), max)

IssueDeleteAll(max) ==
    \E t \in TableNames : IssueCall("deleteAll", t, <<>>, Undef, max)

IssuePush(keys, args, max) ==
    \E t \in TableNames, key \in keys, v \in args : IssueCall("push", t, key, v, max)

IssuePull(keys, args, max) ==
    \E t \in TableNames, key \in keys, v \in args : IssueCall("pull", t, key, v, max)

IssueGet(keys, max) ==
    \E op \in {"get", "has"}, t \in TableNames, key \in keys :
        IssueCall(op, t, key, Undef, max)

\* the oldest pending continuation runs
RunMicrotask ==
    /\ mq # <<>>
    /\ tables' = tables
    /\ LET i == Head(mq)
           c == calls[i]
           q == Tail(mq)
       IN  CASE c.pc = "set.await" ->
                    /\ SetResume(i, c, q)
                    /\ UNCHANGED <<file, tmp, lock, fileClock>>
             [] c.pc = "del.get" ->
                    /\ GetReturn(i, c, RowOf(c.key), "del.await", q)
                    /\ UNCHANGED <<file, tmp, lock, fileClock>>
             [] c.pc = "del.await" ->
                    /\ DeleteResume(i, c, q)
                    /\ UNCHANGED <<file, tmp, lock, fileClock>>
             [] c.pc = "add.get" ->
                    /\ GetReturn(i, c, c.key, "add.await", q)
                    /\ UNCHANGED <<file, tmp, lock, fileClock>>
             [] c.pc = "add.await" ->
                    /\ AddSubResume(i, c, q)
                    /\ UNCHANGED <<file, tmp, lock, fileClock>>
             [] c.pc \in {"get.get", "has.get"} ->
                    /\ GetReturn(i, c, c.key, "get.await", q)
                    /\ UNCHANGED <<file, tmp, lock, fileClock>>
             [] c.pc = "get.await" ->
                    /\ GetDone(i, c, q)
                    /\ UNCHANGED <<file, tmp, lock, fileClock>>
             [] c.pc = "arr.get" ->
                    /\ GetArrayReturn(i, c, q)
                    /\ UNCHANGED <<file, tmp, lock, fileClock>>
             [] c.pc = "arr.await" ->
                    /\ (IF c.op = "push" THEN PushResume(i, c, q) ELSE PullResume(i, c, q))
                    /\ UNCHANGED <<file, tmp, lock, fileClock>>
             [] c.pc = "export" -> ExportStep(i, c, q)
             [] c.pc = "acquire" -> AcquireStep(i, c, q)
             [] c.pc = "landed" -> AfterWrite(i, c, q)
             [] c.pc = "resolving" -> Return(i, c, q)

\* the write in flight completes: the temporary file replaces the target
WriteLand ==
    \E i \in DOMAIN calls :
        /\ calls[i].pc = "writing"
        /\ mq = <<>>
        /\ file' = WriteFileRename(tmp)
        /\ tmp' = NoTmp
        /\ fileClock' = calls[i].mut
        /\ calls' = [calls EXCEPT ![i].pc = "landed"]
        /\ mq' = <<i>>
        /\ UNCHANGED <<tables, rows, heap, lock, mclock>>

\* the write in flight fails: writeFile rejects inside fn, so cb is never
\* called and the promise of acquire never settles
WriteFail ==
    \E i \in DOMAIN calls :
        /\ calls[i].pc = "writing"
        /\ mq = <<>>
        /\ tmp' = NoTmp
        /\ calls' = [calls EXCEPT ![i].pc = "hung", ![i].wfail = TRUE]
        /\ UNCHANGED <<tables, rows, heap, file, mq, lock, mclock, fileClock>>

\* the exports of the in-memory store so far
Track == hist' = hist \cup {Stringify(ExportOf(tables', rows'), heap')}

MainKeys == {KeyB, KeyAX, KeyAY, KeyBX}
DeleteKeys == {KeyB, KeyAX}
MainFiles == {FileOneTable}

Init == InitOf(MainFiles, FALSE)

Next ==
    \/ IssueSet(MainKeys, MaxCalls) /\ UNCHANGED <<hist, inst>>
    \/ IssueDelete(DeleteKeys, MaxCalls) /\ UNCHANGED <<hist, inst>>
    \/ IssueDeleteAll(MaxCalls) /\ UNCHANGED <<hist, inst>>
    \/ RunMicrotask /\ UNCHANGED <<hist, inst>>
    \/ WriteLand /\ UNCHANGED <<hist, inst>>
    \/ WriteFail /\ UNCHANGED <<hist, inst>>

Spec == Init /\ [][Next]_vars

\* the same program when every writeFile is fulfilled; the event loop runs a
\* pending microtask, and delivers a completed write, whenever there is one
MicrotaskStep == RunMicrotask /\ UNCHANGED <<hist, inst>>
WriteLandStep == WriteLand /\ UNCHANGED <<hist, inst>>

NextLive ==
    \/ IssueSet(MainKeys, MaxCalls) /\ UNCHANGED <<hist, inst>>
    \/ IssueDelete(DeleteKeys, MaxCalls) /\ UNCHANGED <<hist, inst>>
    \/ IssueDeleteAll(MaxCalls) /\ UNCHANGED <<hist, inst>>
    \/ MicrotaskStep
    \/ WriteLandStep

SpecLive == Init /\ [][NextLive]_vars /\ WF_vars(MicrotaskStep) /\ WF_vars(WriteLandStep)

\* the same driver with the exports of the in-memory store recorded
HistKeys == {KeyB, KeyAX}

HistFiles == {FileTwoTables}

InitHist == InitOf(HistFiles, TRUE)

NextHist ==
    \/ IssueSet(HistKeys, MaxHistCalls) /\ Track /\ UNCHANGED inst
    \/ IssueDelete({KeyB}, MaxHistCalls) /\ Track /\ UNCHANGED inst
    \/ RunMicrotask /\ Track /\ UNCHANGED inst
    \/ WriteLand /\ Track /\ UNCHANGED inst

SpecHist == InitHist /\ [][NextHist]_vars

\* add and sub on rows holding a number, a numeric text or another text
KeyN == <<"n">>
FileNumber == << [table |-> "t1", rows |-> << [id |-> KeyN, value |-> DNum(1)] >>] >>
FileNumericText == << [table |-> "t1", rows |-> << [id |-> KeyN, value |-> DStr(1)] >>] >>
FileOtherText ==
    << [table |-> "t1",
        rows |-> << [id |-> KeyN, value |-> DStr(0)],
                    [id |-> KeyA, value |-> DObj([EmptyObj EXCEPT ![<<"x">>] = Str(0)])] >>] >>
ArithFiles == {FileEmpty, FileNumber, FileNumericText, FileOtherText}
ArithKeys == {KeyN, KeyAX}

InitArith == InitOf(ArithFiles, FALSE)

NextArith ==
    \/ IssueAddSub(ArithKeys, MaxCalls) /\ UNCHANGED <<hist, inst>>
    \/ RunMicrotask /\ UNCHANGED <<hist, inst>>
    \/ WriteLand /\ UNCHANGED <<hist, inst>>

SpecArith == InitArith /\ [][NextArith]_vars

\* calls made one after another, each awaited before the next is issued
Awaited == \A i \in DOMAIN calls : calls[i].pc = "done"
SeqKeys == {KeyB, KeyAX, KeyBX}
SeqFiles == {FileEmpty, FileOneTable, FileTwoTables}

InitSeq == InitOf(SeqFiles, FALSE)

NextSeq ==
    \/ Awaited /\ IssueSet(SeqKeys, MaxSeqCalls) /\ UNCHANGED <<hist, inst>>
    \/ Awaited /\ IssueGet(SeqKeys, MaxSeqCalls) /\ UNCHANGED <<hist, inst>>
    \/ Awaited /\ IssueDeleteAll(MaxSeqCalls) /\ UNCHANGED <<hist, inst>>
    \/ RunMicrotask /\ UNCHANGED <<hist, inst>>
    \/ WriteLand /\ UNCHANGED <<hist, inst>>

SpecSeq == InitSeq /\ [][NextSeq]_vars

\* add, sub and get made one after another on rows holding a number, a
\* numeric text, or nothing
SeqArithFiles == {FileEmpty, FileNumber, FileNumericText}

InitSeqArith == InitOf(SeqArithFiles, FALSE)

NextSeqArith ==
    \/ Awaited /\ IssueAddSub(ArithKeys, MaxSeqCalls) /\ UNCHANGED <<hist, inst>>
    \/ Awaited /\ IssueGet(ArithKeys, MaxSeqCalls) /\ UNCHANGED <<hist, inst>>
    \/ RunMicrotask /\ UNCHANGED <<hist, inst>>
    \/ WriteLand /\ UNCHANGED <<hist, inst>>

SpecSeqArith == InitSeqArith /\ [][NextSeqArith]_vars

\* push, pull and get made one after another on a row holding an array and
\* on an absent row
KeyR == <<"r">>
FileArray == << [table |-> "t1", rows |-> << [id |-> KeyR, value |-> DArr(<<1, 2, 3>>)] >>] >>
PushArgs == {Num(1), Arr(<<2, 3>>)}
PullArgs == {Num(1), Num(2), Arr(<<1, 3>>), Pred(2)}

InitSeqArr == InitOf({FileArray}, FALSE)

NextSeqArr ==
    \/ Awaited /\ IssuePush({KeyR}, PushArgs, MaxSeqCalls) /\ UNCHANGED <<hist, inst>>
    \/ Awaited /\ IssuePull({KeyR}, PullArgs, MaxSeqCalls) /\ UNCHANGED <<hist, inst>>
    \/ Awaited /\ IssueGet({KeyR}, MaxSeqCalls) /\ UNCHANGED <<hist, inst>>
    \/ RunMicrotask /\ UNCHANGED <<hist, inst>>
    \/ WriteLand /\ UNCHANGED <<hist, inst>>

SpecSeqArr == InitSeqArr /\ [][NextSeqArr]_vars

\* delete, get and has, each call awaited before the next is issued
SeqDelKeys == {KeyA, KeyB, KeyAX}
SeqDelFiles == {FileEmpty, FileTwoTables}

InitSeqDel == InitOf(SeqDelFiles, FALSE)

NextSeqDel ==
    \/ Awaited /\ IssueDelete(SeqDelKeys, MaxSeqCalls) /\ UNCHANGED <<hist, inst>>
    \/ Awaited /\ IssueGet({KeyA, KeyB}, MaxSeqCalls) /\ UNCHANGED <<hist, inst>>
    \/ RunMicrotask /\ UNCHANGED <<hist, inst>>
    \/ WriteLand /\ UNCHANGED <<hist, inst>>

SpecSeqDel == InitSeqDel /\ [][NextSeqDel]_vars

\* the program from before the driver is constructed: whatever is at the path,
\* then new JSONDriver(path), then calls on the instance if there is one
LoadDisk == {FileMissing, FileGood, FileCutShort, FileEntryNotRows}

InitLoad ==
    /\ file \in LoadDisk
    /\ inst = "none"
    /\ tables = EmptyStore.tables
    /\ rows = EmptyStore.rows
    /\ heap = EmptyStore.heap
    /\ tmp = NoTmp
    /\ calls = <<>>
    /\ mq = <<>>
    /\ lock = [held |-> FALSE, q |-> <<>>]
    /\ mclock = 0
    /\ fileClock = 0
    /\ hist = {}

Construct ==
    /\ inst = "none"
    /\ LET c == JsonConstruct(file)
       IN  /\ inst' = c.inst
           /\ file' = c.file
           /\ tables' = c.store.tables
           /\ rows' = c.store.rows
           /\ heap' = c.store.heap
    /\ UNCHANGED <<tmp, calls, mq, lock, mclock, fileClock, hist>>

NextLoad ==
    \/ Construct
    \/ IssueSet(HistKeys, MaxCalls) /\ UNCHANGED <<hist, inst>>
    \/ IssueDelete({KeyB}, MaxCalls) /\ UNCHANGED <<hist, inst>>
    \/ RunMicrotask /\ UNCHANGED <<hist, inst>>
    \/ WriteLand /\ UNCHANGED <<hist, inst>>

SpecLoad == InitLoad /\ [][NextLoad]_vars

\* ------------------------------------------------------------------ claims
\* what JSON.stringify(await export()) would give of the in-memory store now
MemExport == Stringify(ExportOf(tables, rows), heap)

\* from fn's start to cb: inside the "writedb" critical section
InWriteSection(c) == c.pc \in {"writing", "landed", "hung"}
WriteStarted(c) == c.pc \in {"writing", "landed", "hung", "resolving", "done"}
WriteCompleted(c) == c.pc \in {"landed", "resolving", "done"}
AllReturned == calls # <<>> /\ \A i \in DOMAIN calls : calls[i].pc = "done"

\* C1: when a mutating call has returned, a snapshot write started after its
\* in-memory mutation has completed: the file holds the snapshot of that
\* mutation or of a later one, and while nothing has changed the store since
\* (no mutation, no table registered), the file equals the export of the store.
C1_ReturnMeansDurable ==
    \A i \in DOMAIN calls :
        (calls[i].pc = "done" /\ calls[i].mut > 0)
            => /\ fileClock >= calls[i].mut
               /\ (calls[i].mut = mclock /\ calls[i].ntab = Len(tables))
                      => file.data = MemExport

C1_Witness ==
    \E i, j \in DOMAIN calls :
        /\ calls[i].pc = "done" /\ calls[i].mut = mclock
        /\ calls[j].pc = "done" /\ calls[j].mut > 0 /\ calls[j].mut < mclock
        /\ file.data = MemExport
        /\ file.data # FileOneTable

C3_OneWriteInFlight ==
    Cardinality({i \in DOMAIN calls : InWriteSection(calls[i])}) <= 1

C3_Witness ==
    \E i, j \in DOMAIN calls :
        /\ calls[i].pc = "writing"
        /\ calls[j].pc = "queued"
        /\ lock.q = <<j>>


\* C4 (the claim as stated): a call whose snapshot write failed returns a
\* failure to its caller and does not stay pending once nothing is left to
\* run, and the store holds the mutation it applied.
C4_WriteFailureReachesCaller ==
    \A i \in DOMAIN calls :
        (calls[i].wfail /\ mq = <<>>)
            => /\ calls[i].pc = "done"
               /\ calls[i].outcome = "error"
               /\ calls[i].mut > 0

\* C5 (the claim as stated): the file always equals the export the in-memory
\* store had at one single instant.
C5_FileIsOneInstantOfStore == file.data \in hist

\* a driver constructed on the file now: what it holds, as its export
LoadedStore == LoadContentSync(file.data)
LoadedExport == Stringify(ExportOf(LoadedStore.tables, LoadedStore.rows), LoadedStore.heap)

\* C6: at every point, a crash included, the file is complete and loads in
\* full, and the file only ever changes from the previous snapshot to the
\* whole text of the write in flight.
C6_FileNeverTorn ==
    /\ [](file.complete /\ LoadedExport = file.data)
    /\ [][file' # file => (tmp.used /\ file' = [data |-> tmp.data, complete |-> TRUE,
                                           exists |-> TRUE, notRows |-> 0])]_vars

C6_Witness ==
    /\ tmp.used /\ ~tmp.complete
    /\ tmp.data # file.data
    /\ file.data # FileOneTable
    /\ \E i \in DOMAIN calls : calls[i].pc = "writing" /\ calls[i].mut = mclock

\* get(key) on a store: the row value, or for a dotted key lodash get of
\* the path in it
GetIn(st, t, key) ==
    IF Includes(key)
    THEN LodashGet(st.heap, GetRowByKey(st.rows[t], RowOf(key)).result, PathOf(key))
    ELSE GetRowByKey(st.rows[t], key).result

GetNow(t, key) == GetIn([tables |-> tables, rows |-> rows, heap |-> heap], t, key)

AllSets == \A i \in DOMAIN calls : calls[i].op = "set"
DistinctKeys ==
    \A i, j \in DOMAIN calls :
        (i # j /\ calls[i].table = calls[j].table) => calls[i].key # calls[j].key

\* C7 (the claim as stated): after set calls to distinct keys have all
\* returned, a fresh driver on the file yields for each key the value set and
\* holds the rows of the store.
C7_DistinctSetsSurviveReload ==
    (AllReturned /\ AllSets /\ DistinctKeys)
        => /\ \A i \in DOMAIN calls :
                  GetIn(LoadedStore, calls[i].table, calls[i].key) = calls[i].arg
           /\ LoadedExport = MemExport

\* C8 (the claim as stated): after two set calls on different keys have both
\* returned, get of each key returns the value written to it.
C8_DifferentKeysDoNotInterfere ==
    (Len(calls) = 2 /\ AllReturned /\ AllSets /\ DistinctKeys)
        => \A i \in DOMAIN calls : GetNow(calls[i].table, calls[i].key) = calls[i].arg

\* C9 (the claim as stated): add or sub on a key whose value is a text that
\* spells no number fails, writes nothing and leaves the value as it was.
C9_AddOnNonNumberFails ==
    \A i \in DOMAIN calls :
        (calls[i].op \in {"add", "sub"} /\ calls[i].cur = Str(0))
            => /\ calls[i].nSet = 0
               /\ calls[i].pc = "done" => calls[i].outcome = "error"
               /\ Len(calls) = 1 => GetNow(calls[i].table, calls[i].key) = Str(0)

DottedDelete(c) == c.op = "delete" /\ Includes(c.key)

C11_DottedSetKeepsRest ==
    \A i \in DOMAIN calls :
        (calls[i].op = "set" /\ Includes(calls[i].key) /\ calls[i].nSet = 1)
            => calls[i].wrote = calls[i].expect

\* C12: with no other call in between, set(T, K, v) followed by get(T, K)
\* returns v and has(T, K) returns true, for plain and dotted keys, whether
\* or not the row existed before.
C12_SetGetRoundTrip ==
    \A i \in DOMAIN calls :
        (/\ i > 1
         /\ calls[i - 1].op = "set"
         /\ calls[i].op \in {"get", "has"}
         /\ calls[i].table = calls[i - 1].table
         /\ calls[i].key = calls[i - 1].key
         /\ calls[i].pc = "done")
            => calls[i].ret = IF calls[i].op = "has" THEN True ELSE calls[i - 1].arg

C12_Witness ==
    /\ file.data # FileEmpty
    /\ Len(calls) = 2
    /\ calls[1].op = "set" /\ calls[1].key = KeyAX /\ calls[1].table = "t2"
    /\ calls[2].op = "get" /\ calls[2].key = KeyAX /\ calls[2].table = "t2"
    /\ calls[2].pc = "done" /\ calls[2].ret = calls[1].arg

\* the call issued in this step, if one is
Issued(op) == Len(calls') > Len(calls) /\ calls'[Len(calls')].op = op

\* C13: deleteAll on table T empties T and leaves every other table's rows
\* and every registration as they were; T stays in the export with no rows;
\* a set on T that follows succeeds and get returns its value.
C13_DeleteAllClearsOnlyItsTable ==
    /\ [][Issued("deleteAll")
            => LET t == calls'[Len(calls')].table
               IN  /\ rows' = [rows EXCEPT ![t] = <<>>]
                   /\ heap' = heap
                   /\ tables' = GetOrCreateTable(tables, t)]_vars
    /\ [](\A i \in DOMAIN calls :
              (calls[i].op = "deleteAll" /\ calls[i].pc = "done")
                  => /\ i = Len(calls)
                        => /\ rows[calls[i].table] = <<>>
                           /\ \E k \in DOMAIN file.data :
                                  file.data[k] = [table |-> calls[i].table, rows |-> <<>>]
                     /\ (/\ i + 2 = Len(calls)
                         /\ calls[i + 1].op = "set" /\ calls[i + 2].op = "get"
                         /\ calls[i + 1].table = calls[i].table
                         /\ calls[i + 2].table = calls[i].table
                         /\ calls[i + 2].key = calls[i + 1].key
                         /\ calls[i + 2].pc = "done")
                            => calls[i + 2].ret = calls[i + 1].arg)

C13_Witness ==
    /\ Len(calls) = 3
    /\ calls[1].op = "deleteAll" /\ calls[1].table = "t1" /\ calls[1].ret = Num(1)
    /\ calls[2].op = "set" /\ calls[2].table = "t1" /\ calls[2].key = KeyB
    /\ calls[3].op = "get" /\ calls[3].table = "t1" /\ calls[3].key = KeyB
    /\ calls[3].pc = "done" /\ calls[3].ret = calls[2].arg
    /\ rows["t2"] # <<>>
    /\ Len(rows["t1"]) = 1

\* the number a value counts as in add and sub: 0 when absent, the number
\* itself, the number a numeric text spells
NumericValue(v) == IF v.k \in {"null", "undef"} THEN 0 ELSE v.n
IsNumeric(v) == v.k \in {"null", "undef", "num"} \/ (v.k = "str" /\ v.n > 0)

\* C14 (the claim as stated): add and sub, each awaited before the next call, return and store the
\* numeric value of the previous content (0 when absent) plus, or minus, the
\* argument.
C14_AddSubArithmetic ==
    \A i \in DOMAIN calls :
        (calls[i].op \in {"add", "sub"} /\ calls[i].pc = "done" /\ IsNumeric(calls[i].cur))
            => LET r == IF calls[i].op = "add"
                        THEN Num(NumericValue(calls[i].cur) + calls[i].arg.n)
                        ELSE Num(NumericValue(calls[i].cur) - calls[i].arg.n)
               IN  /\ calls[i].outcome = "ok"
                   /\ calls[i].ret = r
                   /\ i = Len(calls) => GetNow(calls[i].table, calls[i].key) = r
                   /\ (i < Len(calls) /\ calls[i + 1].op = "get"
                       /\ calls[i + 1].table = calls[i].table
                       /\ calls[i + 1].key = calls[i].key
                       /\ calls[i + 1].pc = "done")
                          => calls[i + 1].ret = r

\* C15 (the claim as stated): pull(key, x) on an array writes back and
\* returns the array filtered by x, the remaining elements in their order: a
\* single value removes the elements equal to it, a set of values the
\* elements equal to a member, a predicate the elements failing it.
C15_PullFilters ==
    \A i \in DOMAIN calls :
        (calls[i].op = "pull" /\ calls[i].pc = "done" /\ IsArray(calls[i].cur))
            => LET x == calls[i].arg
                   seq == calls[i].cur.n
                   r == IF x.k = "fn" THEN Arr(SelectSeq(seq, LAMBDA e : PredHolds(x, e)))
                        ELSE IF x.k = "arr"
                             THEN Arr(SelectSeq(seq, LAMBDA e : ~ArrIncludes(x.n, e)))
                             ELSE Arr(SelectSeq(seq, LAMBDA e : e # x.n))
               IN  /\ calls[i].outcome = "ok"
                   /\ calls[i].ret = r
                   /\ i = Len(calls) => GetNow(calls[i].table, calls[i].key) = r

Unloadable(f) == f.exists /\ (~f.complete \/ f.notRows > 0)

C17_MalformedFileGivesNoDriver ==
    /\ [](calls # <<>> => inst = "ready")
    /\ [][inst = "malformed" => inst' = "malformed" /\ calls' = <<>>]_vars
    /\ [][inst = "none" /\ inst' # "none"
            => /\ Unloadable(file) => inst' = "malformed" /\ file' = file
               /\ ~file.exists
                    => /\ inst' = "ready"
                       /\ file' = [data |-> FileEmpty, complete |-> TRUE,
                                    exists |-> TRUE, notRows |-> 0]
                       /\ tables' = <<>>]_vars

C17_Witness == inst = "malformed" /\ tables # <<>> /\ calls = <<>>

C19_FailedWriteReleasesLock ==
    (/\ \E i \in DOMAIN calls : calls[i].wfail
     /\ mq = <<>>
     /\ \A j \in DOMAIN calls : calls[j].pc # "writing")
        => /\ ~lock.held
           /\ \A j \in DOMAIN calls :
                  ~calls[j].wfail
                     => /\ calls[j].pc = "done"
                        /\ calls[j].outcome = "ok"
                        /\ calls[j].nWrite = 1

\* C20: delete on a dotted key whose row is absent creates the row holding an
\* empty structure and returns that structure: the row exists, is among all
\* rows of the table, and a has on the row that follows returns true; delete
\* on a plain key of an absent row changes no row and returns 0
C20_DeleteOnAbsentRow ==
    /\ [][Issued("delete")
            => LET c == calls'[Len(calls')]
               IN  (~Includes(c.key) /\ ~GetRowByKey(rows[c.table], c.key).exist)
                       => /\ rows' = rows
                          /\ heap' = heap
                          /\ c.ret = Num(0)]_vars
    /\ [][\A i \in DOMAIN calls :
              (calls[i].op = "delete" /\ ~Includes(calls[i].key))
                  => /\ calls'[i].ret = calls[i].ret
                     /\ calls'[i].outcome # "error"]_vars
    /\ [](\A i \in DOMAIN calls :
              (/\ calls[i].op = "delete" /\ Includes(calls[i].key)
               /\ calls[i].pc = "done" /\ ~calls[i].exist)
                  => LET t == calls[i].table
                         id == RowOf(calls[i].key)
                     IN  /\ calls[i].outcome = "ok"
                         /\ calls[i].ret.k = "ref"
                         /\ i = Len(calls)
                              => /\ heap[calls[i].ret.n] = EmptyObj
                                 /\ GetRowByKey(rows[t], id).exist
                                 /\ GetRowByKey(rows[t], id).result = calls[i].ret
                                 /\ \E k \in DOMAIN GetAllRows(rows[t]) :
                                        GetAllRows(rows[t])[k].id = id
                         /\ (/\ i + 1 = Len(calls)
                             /\ calls[i + 1].op = "has" /\ calls[i + 1].table = t
                             /\ calls[i + 1].key = id /\ calls[i + 1].pc = "done")
                                => calls[i + 1].ret = True)

C20_Witness ==
    /\ Len(calls) = 3
    /\ calls[1].op = "delete" /\ calls[1].key = KeyB /\ calls[1].table = "t1"
    /\ calls[1].ret = Num(0)
    /\ calls[2].op = "delete" /\ calls[2].key = KeyAX /\ calls[2].table = "t2"
    /\ ~calls[2].exist /\ calls[2].ret.k = "ref"
    /\ calls[3].op = "has" /\ calls[3].key = KeyA /\ calls[3].table = "t2"
    /\ calls[3].pc = "done" /\ calls[3].ret = True
    /\ file.data # FileTwoTables

====
